---- MODULE Spec2Model ----
(***************************************************************************)
(* beaver-bootstrap: the logging configuration and multi-appender routing  *)
(* engine (src/beaver-bootstrap/src/log.rs, bootstrap.rs).                  *)
(*                                                                         *)
(* Strings whose inner structure the code looks at (event targets, which   *)
(* tracing matches by prefix, and paths, which std::path compares by       *)
(* component) are sequences of chunks: "storage::db" is                    *)
(* <<"storage", "::db">>, "logs/app.log" is <<"logs", "/", "app.log">>.     *)
(* Logger names, which are only ever compared whole, are plain strings.    *)
(***************************************************************************)
EXTENDS Naturals, Sequences, FiniteSets, TLC

VARIABLES
    config,          \* BootstrapBaseModule.config: Option<Ref<Config>>
    logging_config,  \* BootstrapBaseModule.logging_config
    logger,          \* BootstrapBaseModule.logger: Option<Ref<AppenderGuard>>
    dispatcher,      \* the process-global tracing dispatcher slot
    sinks,           \* every writer + flush worker acquired so far, by id
    dirs,            \* directories that exist on the file system
    emitted,         \* events emitted after construction, in order
    calls,           \* number of Bootstrap calls made so far
    disk,            \* content of etc/config.toml (+ environment overrides)
    flags,           \* Bootstrap builder fields initialize_logging, show_config
    last,            \* what the last call did: its name, result and pass trace
    arg,             \* input of the pure function under check
    ret              \* its result

vars == <<config, logging_config, logger, dispatcher, sinks, dirs, emitted,
          calls, disk, flags, last, arg, ret>>

\* Option<T>: Nil is None and Some(x) a one-element sequence; an absent level or
\* name, both plain strings, is the string None
Nil == <<>>
Some(x) == <<x>>
None == "None"

-----------------------------------------------------------------------------
(* Bounds of the model                                                      *)

MaxLoggers == 2        \* declared loggers in a registry
MaxFileAppenders == 2  \* file appenders in a logging section
MaxCalls == 2          \* Bootstrap calls in one run
MaxEvents == 1         \* events emitted in one run

BSeq(S, n) == UNION {[1..k -> S] : k \in 0..n}

-----------------------------------------------------------------------------
(* Level (log.rs:350-365) and its conversions                               *)

Level == {"Trace", "Debug", "Info", "Warn", "Error", "Off"}

\* severity rank: Trace < Debug < Info < Warn < Error < Off
Rank(l) ==
    CASE l = "Trace" -> 0
      [] l = "Debug" -> 1
      [] l = "Info"  -> 2
      [] l = "Warn"  -> 3
      [] l = "Error" -> 4
      [] l = "Off"   -> 5

as_tracing_level_Mutant(l) == l

\* Level::as_tracing_level: None only for Off
as_tracing_level(l) == IF l = "Off" THEN None ELSE l

\* Level::as_tracing_level_filter: the same six names, OFF included
as_tracing_level_filter(l) == l

-----------------------------------------------------------------------------
(* Paths: PathBuf::from(dir).join(file_name) and Path equality              *)

Sep == "/"
CurDir == "."

Last(s) == s[Len(s)]

\* Path::is_absolute on unix: the string starts with the separator
IsAbsolute(s) == s # <<>> /\ s[1] = Sep

RECURSIVE DropCurDir(_)
DropCurDir(s) ==
    IF s = <<>> THEN <<>>
    ELSE IF Head(s) = CurDir THEN DropCurDir(Tail(s))
    ELSE <<Head(s)>> \o DropCurDir(Tail(s))

RECURSIVE DropSep(_)
DropSep(s) ==
    IF s = <<>> THEN <<>>
    ELSE IF Head(s) = Sep THEN DropSep(Tail(s))
    ELSE <<Head(s)>> \o DropSep(Tail(s))

\* Path::components: repeated separators and a trailing separator vanish, "."
\* vanishes except at the very beginning of the path. Path's Eq and Hash
\* compare exactly this.
Components(s) ==
    LET body == DropSep(s)
    IN  [root  |-> IsAbsolute(s),
         names |-> IF body # <<>> /\ ~IsAbsolute(s) /\ Head(body) = CurDir
                   THEN <<CurDir>> \o DropCurDir(Tail(body))
                   ELSE DropCurDir(body)]

\* PathBuf::push: an absolute argument replaces the path; otherwise it is
\* appended, after a separator when the path does not already end with one.
Join(dir, file_name) ==
    IF IsAbsolute(file_name) THEN file_name
    ELSE IF dir = <<>> \/ Last(dir) = Sep THEN dir \o file_name
    ELSE dir \o <<Sep>> \o file_name

DEFAULT_LOG_FOLDER == <<"exe_dir", Sep, "logs">>

-----------------------------------------------------------------------------
(* Configuration data model (log.rs:48-242)                                 *)

\* Logger { target, level, name }
MkLogger(name, level, target) == [name |-> name, target |-> target, level |-> level]

\* From<AllLoggerSerde> for AllLogger: the declared loggers in order, then the
\* default descriptor with an empty target
AllLoggerFrom(serde) ==
    Append(serde.loggers,
           [name |-> serde.default_name, target |-> <<>>, level |-> serde.default_level])

\* From<FileAppenderConfigSerde> for FileAppenderConfig
FileAppenderConfigFrom(value) ==
    LET log_file_dir == IF value.file_dir = Nil THEN DEFAULT_LOG_FOLDER
                        ELSE value.file_dir[1]
        log_level    == IF value.write_level = None THEN "Info" ELSE value.write_level
    IN  [enable       |-> value.enable,
         write_level  |-> log_level,
         file_dir     |-> log_file_dir,
         file_max_size  |-> value.file_max_size,
         file_max_count |-> value.file_max_count,
         file_name    |-> value.file_name,
         file_path    |-> Join(log_file_dir, value.file_name),
         logger_names |-> value.logger_names]

\* the deserialized LoggingConfig { all_logger, file_appenders, console_appender }
LoggingConfigFrom(raw) ==
    [all_logger       |-> AllLoggerFrom(raw.all_logger),
     file_appenders   |-> [i \in DOMAIN raw.file_appenders |->
                              FileAppenderConfigFrom(raw.file_appenders[i])],
     console_appender |-> raw.console_appender]

\* LoggingConfig::all_logger_name, collected into the HashSet the validators use
all_logger_name(lc) == {lc.all_logger[i].name : i \in DOMAIN lc.all_logger}

-----------------------------------------------------------------------------
(* Validation (log.rs:276-344)                                              *)

Ok == [kind |-> "Ok"]

\* the first index, in declared order, whose descriptor repeats an earlier one
FirstRepeatMutant(s) ==
    LET rep == {i \in DOMAIN s : \E j \in 1..(i - 1) : s[j].name = s[i].name}
    IN  IF rep = {} THEN 0 ELSE CHOOSE i \in rep : \A k \in rep : i <= k

\* HashSet<&Logger>::insert returns false: Logger derives Eq and Hash over
\* (target, level, name)
FirstRepeat(s) ==
    LET rep == {i \in DOMAIN s : \E j \in 1..(i - 1) : s[j] = s[i]}
    IN  IF rep = {} THEN 0 ELSE CHOOSE i \in rep : \A k \in rep : i <= k

\* LoggingConfig::validate_loggers
validate_loggers(lc) ==
    LET i == FirstRepeat(lc.all_logger)
    IN  IF i = 0 THEN Ok
        ELSE [kind |-> "DuplicateLoggerError", logger |-> lc.all_logger[i]]

FirstUnknown_Mutant(names, known) == None

\* the first name of logger_names that is no registry name, or None
FirstUnknown(names, known) ==
    LET bad == {i \in DOMAIN names : names[i] \notin known}
    IN  IF bad = {} THEN None
        ELSE names[CHOOSE i \in bad : \A k \in bad : i <= k]

PathSetContainsMutant(path_set, p) == p \in path_set

\* HashSet<&Path>::insert returns false: Path's Eq and Hash go by components
PathSetContains(path_set, p) == \E q \in path_set : Components(q) = Components(p)

\* the loop of LoggingConfig::validate_file_appender from appender i on:
\* path_set holds the paths seen, made the directories that exist, unmakeable
\* those create_dir_all fails on. Returns the error and the directories.
RECURSIVE validate_file_appender_from(_, _, _, _, _)
validate_file_appender_from(lc, i, path_set, made, unmakeable) ==
    IF i > Len(lc.file_appenders) THEN [err |-> Ok, dirs |-> made]
    ELSE
      LET cfg      == lc.file_appenders[i]
          log_dir  == Components(cfg.file_dir)
          log_path == cfg.file_path
          unknown  == FirstUnknown(cfg.logger_names, all_logger_name(lc))
      IN  IF log_dir \notin made /\ log_dir \in unmakeable
          THEN [err |-> [kind |-> "LogDirectoryCreationError", dir |-> cfg.file_dir],
                dirs |-> made]
          ELSE IF PathSetContains(path_set, log_path)
          THEN [err |-> [kind |-> "DuplicateLogFilePathError", path |-> cfg.file_path],
                dirs |-> made \cup {log_dir}]
          ELSE IF unknown # None
          THEN [err |-> [kind |-> "InvalidConfigValueError", name |-> unknown,
                         appender |-> cfg],
                dirs |-> made \cup {log_dir}]
          ELSE validate_file_appender_from(lc, i + 1, path_set \cup {log_path},
                                           made \cup {log_dir}, unmakeable)

\* LoggingConfig::validate_file_appender
validate_file_appender(lc, made, unmakeable) ==
    validate_file_appender_from(lc, 1, {}, made, unmakeable)

\* how the console error message names its appender: "in console appender"
ConsoleAppender == [appender |-> "console appender"]

validate_console_appender_Mutant(lc) ==
    IF lc.console_appender = Nil \/ ~lc.console_appender[1].enable THEN Ok
    ELSE LET unknown == FirstUnknown(lc.console_appender[1].logger_names,
                                     all_logger_name(lc))
         IN  IF unknown = None THEN Ok
             ELSE [kind |-> "InvalidConfigValueError", name |-> unknown,
                   appender |-> ConsoleAppender]

\* LoggingConfig::validate_console_appender
validate_console_appender(lc) ==
    IF lc.console_appender = Nil THEN Ok
    ELSE LET unknown == FirstUnknown(lc.console_appender[1].logger_names,
                                     all_logger_name(lc))
         IN  IF unknown = None THEN Ok
             ELSE [kind |-> "InvalidConfigValueError", name |-> unknown,
                   appender |-> ConsoleAppender]

\* LoggingConfig::validate: loggers, then file appenders, then the console
\* appender; the first error ends it
validate(lc, made, unmakeable) ==
    LET l == validate_loggers(lc)
        f == validate_file_appender(lc, made, unmakeable)
        c == validate_console_appender(lc)
    IN  IF l # Ok THEN [err |-> l, dirs |-> made]
        ELSE IF f.err # Ok THEN f
        ELSE [err |-> c, dirs |-> f.dirs]

\* a "logging" section serde rejects (unknown field, bad level name, ...)
Unparsable == [parsable |-> FALSE]

\* LoggingConfig::new: deserialize the "logging" section, then validate
LoggingConfigNew(raw, made, unmakeable) ==
    IF raw = Unparsable
    THEN [err |-> [kind |-> "LoggingConfigLoadError"], dirs |-> made, value |-> Nil]
    ELSE LET lc == LoggingConfigFrom(raw)
             v  == validate(lc, made, unmakeable)
         IN  [err |-> v.err, dirs |-> v.dirs,
              value |-> IF v.err = Ok THEN Some(lc) ELSE Nil]

-----------------------------------------------------------------------------
(* Route compilation (bootstrap.rs:126-130, 188-211, 240-263) and the       *)
(* tracing_subscriber Targets filter the compiled route is handed to        *)

logger_map_of_Mutant(all) ==
    [n \in {all[i].name : i \in DOMAIN all} |->
        all[CHOOSE i \in DOMAIN all :
              all[i].name = n /\ \A k \in DOMAIN all : all[k].name = n => i <= k]]

\* logger_map: the descriptors inserted by name in registry order, so that a
\* later descriptor replaces an earlier one of the same name
logger_map_of(all) ==
    [n \in {all[i].name : i \in DOMAIN all} |->
        all[CHOOSE i \in DOMAIN all :
              all[i].name = n /\ \A k \in DOMAIN all : all[k].name = n => k <= i]]

Range(s) == {s[i] : i \in DOMAIN s}

\* the orders in which the HashSet<&str> of logger_names may be iterated
IterationOrders(logger_names) ==
    LET S == Range(logger_names)
    IN  {o \in [1..Cardinality(S) -> S] : Range(o) = S}

EmptyTargets == [default |-> None, targets |-> {}]

\* Targets::with_default: a directive without target; a second one replaces it
with_default(acc, level) == [acc EXCEPT !.default = level]

\* Targets::with_target: a directive for the target; one of the same target is
\* replaced
with_target(acc, target, level) ==
    [acc EXCEPT !.targets = {d \in @ : d.target # target}
                            \cup {[target |-> target, level |-> level]}]

fold_step_Mutant(acc, item) ==
    with_target(acc, item.target, as_tracing_level_filter(item.level))

\* the closure folded over logger_target
fold_step(acc, item) ==
    IF item.target = <<>>
    THEN with_default(acc, as_tracing_level_filter(item.level))
    ELSE with_target(acc, item.target, as_tracing_level_filter(item.level))

RECURSIVE fold_targets(_, _)
fold_targets(acc, logger_target) ==
    IF logger_target = <<>> THEN acc
    ELSE fold_targets(fold_step(acc, Head(logger_target)), Tail(logger_target))

\* the second half of initialize_logging_{file,console}_tracing: the names of
\* the appender, deduplicated and visited in the order the HashSet yields
\* them, each resolved through logger_map (unwrap), folded into a Targets
compile_targets(logger_map, order) ==
    IF \E i \in DOMAIN order : order[i] \notin DOMAIN logger_map
    THEN [panic |-> TRUE]
    ELSE fold_targets(EmptyTargets, [i \in DOMAIN order |-> logger_map[order[i]]])

StartsWith(s, prefix) ==
    Len(prefix) <= Len(s) /\ SubSeq(s, 1, Len(prefix)) = prefix

\* Targets as the per-layer filter (with_filter): of the directives whose
\* target is a prefix of the event's target the most specific (longest) one
\* decides, the default directive when there is none, and no directive at all
\* rejects; a directive admits the levels at or above its own, OFF none
targets_enabled(targets, target, severity) ==
    LET hit == {d \in targets.targets : StartsWith(target, d.target)}
    IN  IF hit # {}
        THEN LET d == CHOOSE x \in hit : \A y \in hit : Len(y.target) <= Len(x.target)
             IN  Rank(d.level) <= Rank(severity)
        ELSE targets.default # None /\ Rank(targets.default) <= Rank(severity)

\* MakeWriterExt::with_max_level(level): the writer takes the events at or
\* above the appender's write level
writer_enabled(write_level, severity) == Rank(write_level) <= Rank(severity)

-----------------------------------------------------------------------------
(* Bootstrap (bootstrap.rs:71-284). The operations are functions of the     *)
(* process state st = [config, logging_config, logger, dispatcher, sinks,   *)
(* dirs, emitted] so that initialize can run one after the other. The       *)
(* result of a step is bound once, as the element of a singleton set.       *)

Err(kind) == [kind |-> kind]

\* every sink of ids loses its WorkerGuard: the flush worker writes out what it
\* holds and stops, and what is sent to the sink afterwards is lost
drop_guards(all_sinks, ids) ==
    [i \in DOMAIN all_sinks |-> IF i \in ids THEN [all_sinks[i] EXCEPT !.open = FALSE]
                                             ELSE all_sinks[i]]

\* a layer takes the event when its Targets filter and its writer's max level
\* both let it through; a sink whose worker has stopped loses it
layer_takes(layer, event) ==
    /\ targets_enabled(layer.targets, event.target, event.level)
    /\ writer_enabled(layer.level, event.level)

\* an event handed to the global dispatcher (none installed: nobody hears it)
dispatch(st, event) ==
    LET layers == IF st.dispatcher = Nil THEN <<>> ELSE st.dispatcher[1]
        takes(i) == \E k \in DOMAIN layers :
                       layers[k].sink = i /\ layer_takes(layers[k], event)
    IN  [st EXCEPT
           !.emitted = Append(@, [event |-> event, installed |-> st.dispatcher # Nil]),
           !.sinks   = [i \in DOMAIN st.sinks |->
                          IF takes(i) /\ st.sinks[i].open
                          THEN [st.sinks[i] EXCEPT !.lines = Append(@, event)]
                          ELSE st.sinks[i]]]

\* tracing::warn!("not found config `{}`", ..) in Config::from_folder
ConfigNotFoundEvent == [target |-> <<"beaver_bootstrap", "::config">>, level |-> "Warn"]

\* Config::load (config/mod.rs): a missing config.toml is warned about and
\* left out, the configuration then holds the environment only and has no
\* "logging" section, which LoggingConfig cannot be deserialized from; a
\* config.toml that does not parse fails the build of the configuration
load(st, file) ==
    IF ~file.present
    THEN [st |-> dispatch(st, ConfigNotFoundEvent), err |-> Ok,
          value |-> [logging |-> Unparsable]]
    ELSE IF ~file.wellformed THEN [st |-> st, err |-> Err("ConfigLoadError")]
    ELSE [st |-> st, err |-> Ok, value |-> [logging |-> file.logging]]

\* Bootstrap::initialize_config: Config::load, stored on success
initialize_config(st, file) ==
    CHOOSE out \in
       {IF c.err # Ok THEN [st |-> c.st, err |-> c.err]
        ELSE [st |-> [c.st EXCEPT !.config = Some(c.value)], err |-> Ok] :
          c \in {load(st, file)}} : TRUE

store_logging_config_Mutant(old, result) == result.value

\* let logging_config = Ref::new(logging_config_result?); ...insert(logging_config)
store_logging_config(old, result) == IF result.err = Ok THEN result.value ELSE old

initialize_logging_config_Mutant(st, unmakeable) ==
    LET result == LoggingConfigNew(IF st.config = Nil THEN Unparsable
                                   ELSE st.config[1].logging, st.dirs, unmakeable)
    IN  [st  |-> [st EXCEPT !.dirs = result.dirs,
                            !.logging_config = store_logging_config(@, result)],
         err |-> result.err]

\* Bootstrap::initialize_logging_config
initialize_logging_config(st, unmakeable) ==
    IF st.config = Nil
    THEN [st |-> st, err |-> Err("MissingConfigValueError")]
    ELSE LET result == LoggingConfigNew(st.config[1].logging, st.dirs, unmakeable)
         IN  [st  |-> [st EXCEPT !.dirs = result.dirs,
                                 !.logging_config = store_logging_config(@, result)],
              err |-> result.err]

write_level_error(field, level) ==
    [kind |-> "InvalidConfigValueError", field |-> field, write_level |-> level]

\* Bootstrap::initialize_logging_file_tracing: the steps it takes, in order,
\* and what it returns. unopenable holds the files the rolling appender cannot
\* open.
initialize_logging_file_tracing(appender_config, logger_map, order, unopenable) ==
    IF as_tracing_level(appender_config.write_level) = None
    THEN [err   |-> write_level_error("logging.file_appenders[?].write_level",
                                      appender_config.write_level),
          steps |-> <<"level_rejected">>]
    ELSE IF Components(appender_config.file_path) \in unopenable
    THEN [err |-> Err("LogFileCreationError"), steps |-> <<"open_failed">>]
    ELSE LET targets == compile_targets(logger_map, order)
         IN  IF targets = [panic |-> TRUE]
             THEN [err |-> Err("panic"), steps |-> <<"open">>]
             ELSE [err     |-> Ok,
                   steps   |-> <<"open", "worker", "route">>,
                   targets |-> targets,
                   level   |-> as_tracing_level(appender_config.write_level),
                   sink    |-> [kind |-> "file", path |-> appender_config.file_path,
                                open |-> TRUE, lines |-> <<>>]]

\* Bootstrap::initialize_logging_console_tracing
initialize_logging_console_tracing(appender_config, logger_map, order) ==
    IF as_tracing_level(appender_config.write_level) = None
    THEN [err   |-> write_level_error("logging.console_appender[?].write_level",
                                      appender_config.write_level),
          steps |-> <<"level_rejected">>]
    ELSE LET targets == compile_targets(logger_map, order)
         IN  IF targets = [panic |-> TRUE]
             THEN [err |-> Err("panic"), steps |-> <<>>]
             ELSE [err     |-> Ok,
                   steps   |-> <<"worker", "route">>,
                   targets |-> targets,
                   level   |-> as_tracing_level(appender_config.write_level),
                   sink    |-> [kind |-> "console", path |-> <<"stdout">>,
                                open |-> TRUE, lines |-> <<>>]]

Steps(kind, i, steps) == [k \in DOMAIN steps |-> <<kind, i, steps[k]>>]

\* one more appender done: its sink, its guard, its writer and its steps
Acquired(acc, kind, i, r) ==
    IF r.err # Ok
    THEN [acc EXCEPT !.err = r.err, !.trace = @ \o Steps(kind, i, r.steps)]
    ELSE [acc EXCEPT
            !.sinks   = Append(@, r.sink),
            !.guards  = Append(@, Len(acc.sinks) + 1),
            !.writers = Append(@, [sink |-> Len(acc.sinks) + 1, targets |-> r.targets,
                                   level |-> r.level]),
            !.trace   = @ \o Steps(kind, i, r.steps)]

\* for file_config in binding.file_appender_config() { if file_config.enable() ... }
RECURSIVE file_appenders_from(_, _, _, _, _, _)
file_appenders_from(acc, lc, i, logger_map, orders, unopenable) ==
    IF i > Len(lc.file_appenders) \/ acc.err # Ok THEN acc
    ELSE IF ~lc.file_appenders[i].enable
    THEN file_appenders_from(acc, lc, i + 1, logger_map, orders, unopenable)
    ELSE CHOOSE out \in
            {file_appenders_from(next, lc, i + 1, logger_map, orders, unopenable) :
               next \in {Acquired(acc, "file", i, r) :
                           r \in {initialize_logging_file_tracing(
                                     lc.file_appenders[i], logger_map, orders[i],
                                     unopenable)}}} : TRUE

console_appender_of_Mutant(acc, lc, logger_map, order) ==
    IF acc.err # Ok \/ lc.console_appender = Nil THEN acc
    ELSE CHOOSE out \in
            {Acquired(acc, "console", 1, r) :
               r \in {initialize_logging_console_tracing(lc.console_appender[1],
                                                         logger_map, order)}} : TRUE

\* if console_opt.is_some() && console_opt.unwrap().enable() ...
console_appender_of(acc, lc, logger_map, order) ==
    IF acc.err # Ok \/ lc.console_appender = Nil THEN acc
    ELSE IF ~lc.console_appender[1].enable THEN acc
    ELSE CHOOSE out \in
            {Acquired(acc, "console", 1, r) :
               r \in {initialize_logging_console_tracing(lc.console_appender[1],
                                                         logger_map, order)}} : TRUE

guards_of(logger_opt) == IF logger_opt = Nil THEN {} ELSE Range(logger_opt[1])

\* base_modules.logger.insert(Ref::new(AppenderGuard::new(writer_guards))): the
\* bundle stored before is dropped, and with it its guards
store_guards(st, acc) ==
    [st EXCEPT !.sinks  = drop_guards(acc.sinks, guards_of(st.logger)),
               !.logger = Some(acc.guards)]

try_init_Mutant(st, layers) ==
    [st |-> [st EXCEPT !.dispatcher = Some(layers)], err |-> Ok]

\* subscriber.try_init(): the global dispatcher can be set once
try_init(st, layers) ==
    IF st.dispatcher # Nil
    THEN [st |-> st, err |-> Err("TracingSubscriberInitError")]
    ELSE [st |-> [st EXCEPT !.dispatcher = Some(layers)], err |-> Ok]

\* Bootstrap::initialize_logging_loggers. orders gives, per appender, the order
\* its name set is iterated in. A failing appender returns at once: the guards
\* collected so far are locals and are dropped. phase lists the steps entered.
initialize_logging_loggers(st, orders, unopenable) ==
    IF st.logging_config = Nil
    THEN [st |-> st, err |-> Err("MissingConfigValueError"), phase |-> <<"loggers">>,
          trace |-> <<>>]
    ELSE
      LET binding    == st.logging_config[1]
          logger_map == logger_map_of(binding.all_logger)
          start      == [err |-> Ok, sinks |-> st.sinks, guards |-> <<>>,
                         writers |-> <<>>, trace |-> <<>>]
          files      == file_appenders_from(start, binding, 1, logger_map,
                                            orders.file, unopenable)
      IN  CHOOSE out \in
            {IF all.err # Ok
             THEN [st    |-> [st EXCEPT !.sinks = drop_guards(all.sinks,
                                                              Range(all.guards))],
                   err   |-> all.err, phase |-> <<"loggers">>, trace |-> all.trace]
             ELSE LET stored == store_guards(st, all)
                      init   == try_init(stored, all.writers)
                  IN  [st |-> init.st, err |-> init.err,
                       phase |-> <<"loggers", "install">>, trace |-> all.trace] :
               all \in {console_appender_of(fs, binding, logger_map, orders.console) :
                          fs \in {files}}} : TRUE

\* Bootstrap::initialize_logging
initialize_logging(st, enabled, unmakeable, orders, unopenable) ==
    IF ~enabled THEN [st |-> st, err |-> Ok, phase |-> <<>>, trace |-> <<>>]
    ELSE CHOOSE out \in
            {IF c.err # Ok
             THEN [st |-> c.st, err |-> c.err, phase |-> <<"config">>, trace |-> <<>>]
             ELSE CHOOSE l \in
                    {[l EXCEPT !.phase = <<"config">> \o @] :
                       l \in {initialize_logging_loggers(c.st, orders, unopenable)}} :
                    TRUE :
               c \in {initialize_logging_config(st, unmakeable)}} : TRUE

\* tracing::info!("load config {}={}", key, value) in bootstrap.rs
ShowConfigEvent == [target |-> <<"beaver_bootstrap", "::bootstrap">>, level |-> "Info"]

\* Bootstrap::show_config: one event per property (one property here)
show_config(st, properties_ok) ==
    IF st.config = Nil THEN [st |-> st, err |-> Ok]
    ELSE IF ~properties_ok THEN [st |-> st, err |-> Err("ConfigShowError")]
    ELSE [st |-> dispatch(st, ShowConfigEvent), err |-> Ok]

\* Bootstrap::initialize
initialize(st, fl, file, unmakeable, orders, unopenable, properties_ok) ==
    LET c == initialize_config(st, file)
    IN  IF c.err # Ok
        THEN [st |-> c.st, err |-> c.err, phase |-> <<"load">>, trace |-> <<>>]
        ELSE CHOOSE out \in
               {IF l.err # Ok \/ ~fl.show_config THEN [l EXCEPT !.phase = <<"load">> \o @]
                ELSE LET s == show_config(l.st, properties_ok)
                     IN  [st |-> s.st, err |-> s.err,
                          phase |-> <<"load">> \o l.phase \o <<"show_config">>,
                          trace |-> l.trace] :
                  l \in {initialize_logging(c.st, fl.initialize_logging, unmakeable,
                                            orders, unopenable)}} : TRUE

-----------------------------------------------------------------------------
(* Inputs of the pure-function specifications                               *)

RawConfig(all_logger, file_appenders, console_appender) ==
    [parsable |-> TRUE, all_logger |-> all_logger,
     file_appenders |-> file_appenders, console_appender |-> console_appender]

AllLoggerSerde(L, n, DN, DL) ==
    [loggers : BSeq(L, n), default_name : DN, default_level : DL]

\* registry family: every shape of a small registry, no appender
LoggerSamples ==
    [name : {"a", "b"}, target : {<<>>, <<"s">>}, level : {"Info", "Warn"}]

RegistryInputs ==
    {RawConfig(al, <<>>, Nil) :
        al \in AllLoggerSerde(LoggerSamples, MaxLoggers, {"a", "b"}, {"Info", "Warn"})}

\* logger-name family: appenders that reference known and unknown names, over
\* registries with and without a duplicate, paths that collide or not
NameLoggers == {MkLogger("a", "Info", <<>>), MkLogger("b", "Info", <<"s">>)}
NameLists == {<<"a">>, <<"b">>, <<"c", "b">>}

NameFileAppenders ==
    [enable : BOOLEAN, write_level : {None}, file_dir : {Some(<<"logs">>), Some(<<"var">>)},
     file_max_size : {0}, file_max_count : {0},
     file_name : {<<"app.log">>}, logger_names : NameLists]

NameConsoles ==
    {Some([enable |-> TRUE, write_level |-> "Info", logger_names |-> <<"a">>]),
     Some([enable |-> FALSE, write_level |-> "Info", logger_names |-> <<"a", "b">>])}

NameInputs ==
    {RawConfig(al, fa, co) :
        al \in AllLoggerSerde(NameLoggers, MaxLoggers - 1, {"a"}, {"Info"}),
        fa \in BSeq(NameFileAppenders, MaxFileAppenders),
        co \in NameConsoles}

\* path family: directories and file names that spell the same file differently
PathDirs == {Nil, Some(<<"logs">>), Some(<<"logs", Sep>>), Some(<<"var">>)}
PathFileNames ==
    {<<"app.log">>, <<CurDir, Sep, "app.log">>, <<Sep, "app.log">>, <<"sys.log">>}

PathFileAppenders ==
    [enable : {TRUE}, write_level : {None}, file_dir : PathDirs,
     file_max_size : {0}, file_max_count : {0},
     file_name : PathFileNames, logger_names : {<<>>}]

PathInputs ==
    {RawConfig([loggers |-> <<>>, default_name |-> "a", default_level |-> "Info"],
               fa, Nil) :
        fa \in BSeq(PathFileAppenders, MaxFileAppenders)}

\* directories create_dir_all may fail on
Unmakeable == {{}, {Components(<<"var">>)}}

ValidateInputs ==
    [raw : RegistryInputs \cup {Unparsable}, unmakeable : {{}}]
    \cup [raw : NameInputs \cup PathInputs, unmakeable : Unmakeable]

-----------------------------------------------------------------------------
(* SpecValidate: LoggingConfig::new applied to one logging section          *)

Idle ==
    /\ config = Nil /\ logging_config = Nil /\ logger = Nil /\ dispatcher = Nil
    /\ sinks = <<>> /\ dirs = {} /\ emitted = <<>> /\ calls = 0
    /\ disk = Unparsable
    /\ flags = [initialize_logging |-> TRUE, show_config |-> FALSE]
    /\ last = [op |-> "new"]

InitValidate ==
    /\ Idle
    /\ arg \in ValidateInputs
    /\ ret = Nil

ApplyLoggingConfigNew ==
    /\ ret = Nil
    /\ ret' = Some(LoggingConfigNew(arg.raw, {}, arg.unmakeable))
    /\ last' = [op |-> "LoggingConfig::new",
                deserialized |-> IF arg.raw.parsable THEN Some(LoggingConfigFrom(arg.raw))
                                 ELSE Nil]
    /\ UNCHANGED <<config, logging_config, logger, dispatcher, sinks, dirs, emitted,
                   calls, disk, flags, arg>>

NextValidate == ApplyLoggingConfigNew

SpecValidate == InitValidate /\ [][NextValidate]_vars

\* the configuration validate ran on, and what it answered
Validated == ret # Nil /\ arg.raw.parsable
ArgConfig == last.deserialized[1]
RetErr == ret[1].err

NoRepeatAmong(s, n) == \A i, j \in 1..n : i < j => s[i] # s[j]

\* C3: validation fails with DuplicateLoggerError exactly when two descriptors
\* of the registry (the synthesized default included) are equal on the full
\* tuple (name, target, level); the error carries the first descriptor, in
\* declared order, that repeats an earlier one; descriptors that share only a
\* name are not duplicates.
C3_DuplicateLogger ==
    Validated =>
      LET all == ArgConfig.all_logger
          dup == \E i, j \in DOMAIN all : i < j /\ all[i] = all[j]
      IN  /\ dup <=> RetErr.kind = "DuplicateLoggerError"
          /\ dup => \E j \in DOMAIN all :
                       /\ RetErr.logger = all[j]
                       /\ NoRepeatAmong(all, j - 1)
                       /\ \E i \in 1..(j - 1) : all[i] = all[j]

\* a registry in which a name is shared by two distinct descriptors before the
\* first structural repeat, and validation names that repeat
C3_Witness ==
    /\ Validated
    /\ RetErr.kind = "DuplicateLoggerError"
    /\ LET all == ArgConfig.all_logger
       IN  \E i, j \in DOMAIN all :
              /\ i < j /\ all[i].name = all[j].name /\ all[i] # all[j]
              /\ RetErr.logger # all[j]
              /\ \E k \in DOMAIN all : k > j /\ all[k] = RetErr.logger

-----------------------------------------------------------------------------
(* Spec: one Bootstrap in one process, called in any order                  *)

MainAllLogger ==
    [loggers |-> <<MkLogger("api_info", "Info", <<"api">>),
                   MkLogger("api_warn", "Warn", <<"api">>),
                   MkLogger("db_error", "Error", <<"db">>)>>,
     default_name |-> "root", default_level |-> "Info"]

MainFileAppender(enable, write_level, file_name) ==
    [enable |-> enable, write_level |-> write_level, file_dir |-> Some(<<"logs">>),
     file_max_size |-> 0, file_max_count |-> 0,
     file_name |-> file_name, logger_names |-> <<"api_info">>]

\* the file_appenders tables: none, one, two, a disabled one first, Off on an
\* enabled and on a disabled one, the same path twice, the same file under two
\* spellings of its directory
MainFileAppenders ==
    LET app    == MainFileAppender(TRUE, None, <<"app.log">>)
        sys    == MainFileAppender(TRUE, None, <<"sys.log">>)
        appOff == MainFileAppender(TRUE, "Off", <<"app.log">>)
        sysOut == MainFileAppender(FALSE, "Off", <<"sys.log">>)
        appDot == [app EXCEPT !.file_dir = Some(<<CurDir, Sep, "logs">>)]
    IN  {<<>>, <<app>>, <<app, sys>>, <<sysOut, app>>, <<appOff>>, <<sysOut, appOff>>,
         <<app, app>>, <<app, appDot>>}

\* the console_appender tables: absent, enabled, disabled, Off, and one that
\* names a logger the registry does not have
MainConsoles ==
    {Nil} \cup
    {Some([enable |-> e, write_level |-> w, logger_names |-> <<"api_warn", "db_error">>]) :
        <<e, w>> \in {<<TRUE, "Info">>, <<FALSE, "Info">>, <<TRUE, "Off">>}} \cup
    {Some([enable |-> TRUE, write_level |-> "Info",
           logger_names |-> <<"api_warn", "audit">>])}

MainLogging ==
    {RawConfig(MainAllLogger, fa, co) :
        fa \in MainFileAppenders, co \in MainConsoles}

\* what Config::load finds: no config.toml, one that does not parse, or one
\* whose "logging" section deserializes or not
ConfigFiles ==
    {[present |-> FALSE, wellformed |-> TRUE, logging |-> Unparsable],
     [present |-> TRUE, wellformed |-> FALSE, logging |-> Unparsable]}
       \cup [present : {TRUE}, wellformed : {TRUE}, logging : MainLogging \cup {Unparsable}]

MainUnmakeable == {{}, {Components(<<"logs">>)}}
MainUnopenable == {{}, {Components(<<"logs", Sep, "sys.log">>)}}

\* events the application emits
AppEvents ==
    {[target |-> <<"api">>, level |-> "Warn"], [target |-> <<"db">>, level |-> "Warn"],
     [target |-> <<"api">>, level |-> "Info"]}

\* the iteration orders of the name sets of the appenders of a logging section
OrdersOf(raw) ==
    IF ~raw.parsable THEN {[file |-> <<>>, console |-> <<>>]}
    ELSE LET fa == raw.file_appenders
             co == IF raw.console_appender = Nil THEN <<>>
                   ELSE raw.console_appender[1].logger_names
         IN  [file    : {f \in [DOMAIN fa -> UNION {IterationOrders(fa[i].logger_names) :
                                                      i \in DOMAIN fa}] :
                            \A i \in DOMAIN fa : f[i] \in IterationOrders(fa[i].logger_names)},
              console : IterationOrders(co)]

State ==
    [config |-> config, logging_config |-> logging_config, logger |-> logger,
     dispatcher |-> dispatcher, sinks |-> sinks, dirs |-> dirs, emitted |-> emitted]

Becomes(st) ==
    /\ config' = st.config
    /\ logging_config' = st.logging_config
    /\ logger' = st.logger
    /\ dispatcher' = st.dispatcher
    /\ sinks' = st.sinks
    /\ dirs' = st.dirs
    /\ emitted' = st.emitted

Called(op, r) ==
    /\ Len(r.st.emitted) <= MaxEvents
    /\ Becomes(r.st)
    /\ calls' = calls + 1
    /\ last' = [op |-> op, result |-> r.err, phase |-> r.phase, trace |-> r.trace]
    /\ UNCHANGED <<disk, flags, arg, ret>>

Init ==
    /\ config = Nil /\ logging_config = Nil /\ logger = Nil /\ dispatcher = Nil
    /\ sinks = <<>> /\ dirs = {} /\ emitted = <<>> /\ calls = 0
    /\ disk \in ConfigFiles
    /\ flags \in [initialize_logging : BOOLEAN, show_config : BOOLEAN]
    /\ last = [op |-> "new", result |-> Ok, phase |-> <<>>, trace |-> <<>>]
    /\ arg = Nil /\ ret = Nil

InitializeConfig ==
    /\ calls < MaxCalls
    /\ \E r \in {initialize_config(State, disk)} :
          Called("initialize_config", [st |-> r.st, err |-> r.err, phase |-> <<"load">>,
                                       trace |-> <<>>])

InitializeLogging ==
    /\ calls < MaxCalls
    /\ \E unmakeable \in MainUnmakeable, unopenable \in MainUnopenable,
          orders \in OrdersOf(IF config = Nil THEN Unparsable ELSE config[1].logging) :
          \E r \in {initialize_logging(State, flags.initialize_logging, unmakeable,
                                       orders, unopenable)} :
             Called("initialize_logging", r)

Initialize ==
    /\ calls < MaxCalls
    /\ \E unmakeable \in MainUnmakeable, unopenable \in MainUnopenable,
          orders \in OrdersOf(IF disk.present THEN disk.logging ELSE Unparsable),
          properties_ok \in BOOLEAN :
          \E r \in {initialize(State, flags, disk, unmakeable, orders, unopenable,
                               properties_ok)} :
             Called("initialize", r)

ShowConfig ==
    /\ calls < MaxCalls
    /\ \E properties_ok \in BOOLEAN :
          \E r \in {show_config(State, properties_ok)} :
             Called("show_config", [st |-> r.st, err |-> r.err,
                                    phase |-> <<"show_config">>,
                                    trace |-> <<>>])

\* the application logs an event through the tracing macros
Emit ==
    /\ Len(emitted) < MaxEvents
    /\ \E event \in AppEvents : \E st \in {dispatch(State, event)} : Becomes(st)
    /\ last' = [op |-> "emit", result |-> Ok, phase |-> <<>>, trace |-> <<>>]
    /\ UNCHANGED <<calls, disk, flags, arg, ret>>

\* config.toml is edited between two calls: its "logging" section no longer
\* deserializes (Config::load reads the file anew on every call)
ConfigFileEdited ==
    /\ calls < MaxCalls
    /\ disk.present /\ disk.logging.parsable
    /\ disk' = [disk EXCEPT !.logging = Unparsable]
    /\ UNCHANGED <<config, logging_config, logger, dispatcher, sinks, dirs, emitted,
                   calls, flags, last, arg, ret>>

Next ==
    InitializeConfig \/ InitializeLogging \/ Initialize \/ ShowConfig \/ Emit
       \/ ConfigFileEdited

Spec == Init /\ [][Next]_vars

-----------------------------------------------------------------------------
(* What the validated configuration looks like, stated without the code     *)

FA == ArgConfig.file_appenders
Known == {ArgConfig.all_logger[i].name : i \in DOMAIN ArgConfig.all_logger}
HasUnknown(names) == \E k \in DOMAIN names : names[k] \notin Known
IsFirstUnknown(n, names) ==
    \E k \in DOMAIN names :
        names[k] = n /\ n \notin Known /\ \A m \in 1..(k - 1) : names[m] \in Known

NoDuplicateLogger == NoRepeatAmong(ArgConfig.all_logger, Len(ArgConfig.all_logger))
DirsMakeable(n) == \A i \in 1..n : Components(FA[i].file_dir) \notin arg.unmakeable
SamePath(p, q) == Components(p) = Components(q)
PathsDistinct(n) == \A i, j \in 1..n : i < j => ~SamePath(FA[i].file_path, FA[j].file_path)
NamesKnown(n) == \A i \in 1..n : ~HasUnknown(FA[i].logger_names)
ConsoleNames ==
    IF ArgConfig.console_appender = Nil THEN <<>>
    ELSE ArgConfig.console_appender[1].logger_names

IsUnknownNameError(e) == e.kind = "InvalidConfigValueError"

\* the unknown-name error names an appender that does hold that unknown name
NamesAnOffender(e) ==
    \/ e.appender = ConsoleAppender /\ \E k \in DOMAIN ConsoleNames :
          ConsoleNames[k] = e.name /\ e.name \notin Known
    \/ \E i \in DOMAIN FA : e.appender = FA[i] /\ \E k \in DOMAIN FA[i].logger_names :
          FA[i].logger_names[k] = e.name /\ e.name \notin Known

\* C4 as stated (on a file system where every directory can be created):
\* whenever a file or console appender (enabled or not) references a name that
\* no registry descriptor bears, validation fails with the error that names
\* an offending appender and the missing name; and only such an appender
\* produces that error.
C4_AsStated ==
    (Validated /\ DirsMakeable(Len(FA))) =>
      /\ ((\E i \in DOMAIN FA : HasUnknown(FA[i].logger_names)) \/ HasUnknown(ConsoleNames))
            => IsUnknownNameError(RetErr) /\ NamesAnOffender(RetErr)
      /\ IsUnknownNameError(RetErr) => NamesAnOffender(RetErr)

\* C4 (amended): such a configuration always fails validation; the error is
\* the unknown-name error, naming the first offending appender (file appenders
\* in declared order, then the console appender) and its first missing name,
\* whenever no check that validate runs before it fails: no descriptor is
\* duplicated and, among the file appenders up to the offending one, every
\* directory can be created and no two paths collide. An appender that
\* references only declared names never produces this error.
C4_UnknownLoggerName ==
    Validated =>
      /\ ((\E i \in DOMAIN FA : HasUnknown(FA[i].logger_names)) \/ HasUnknown(ConsoleNames))
            => RetErr # Ok
      /\ \A k \in DOMAIN FA :
            ( /\ HasUnknown(FA[k].logger_names) /\ NamesKnown(k - 1)
              /\ NoDuplicateLogger /\ DirsMakeable(k) /\ PathsDistinct(k) )
            => /\ IsUnknownNameError(RetErr)
               /\ RetErr.appender = FA[k]
               /\ IsFirstUnknown(RetErr.name, FA[k].logger_names)
      /\ ( /\ HasUnknown(ConsoleNames) /\ NamesKnown(Len(FA))
           /\ NoDuplicateLogger /\ DirsMakeable(Len(FA)) /\ PathsDistinct(Len(FA)) )
            => /\ IsUnknownNameError(RetErr)
               /\ RetErr.appender = ConsoleAppender
               /\ IsFirstUnknown(RetErr.name, ConsoleNames)
      /\ IsUnknownNameError(RetErr) => NamesAnOffender(RetErr)

\* a disabled second file appender with two names, the first of them unknown,
\* after a first appender that is in order: the error names it and that name
C4_Witness ==
    /\ Validated
    /\ Len(FA) >= 2 /\ ~FA[2].enable /\ Len(FA[2].logger_names) = 2
    /\ ~HasUnknown(FA[1].logger_names) /\ FA[1].logger_names # <<>>
    /\ IsUnknownNameError(RetErr) /\ RetErr.appender = FA[2]
    /\ RetErr.name = FA[2].logger_names[1]

\* the console appender is the offender
C4_WitnessConsole ==
    /\ Validated /\ Len(FA) >= 1
    /\ IsUnknownNameError(RetErr) /\ RetErr.appender = ConsoleAppender

\* the path check alone, on the pair (a, b) of file appenders
PairPathCheck(a, b) ==
    validate_file_appender(
        [all_logger |-> <<>>, file_appenders |-> <<[a EXCEPT !.logger_names = <<>>],
                                                   [b EXCEPT !.logger_names = <<>>]>>,
         console_appender |-> Nil], {}, {}).err

\* appender j of the section under check, with another directory or file name
WithDir(j, d) == FileAppenderConfigFrom([arg.raw.file_appenders[j] EXCEPT !.file_dir = d])
WithName(j, f) == FileAppenderConfigFrom([arg.raw.file_appenders[j] EXCEPT !.file_name = f])
Changes(j) ==
    {c \in {WithDir(j, d) : d \in PathDirs} \cup {WithName(j, f) : f \in PathFileNames} :
        c.file_dir # FA[j].file_dir \/ c.file_name # FA[j].file_name}

IsDuplicatePathError(e) == e.kind = "DuplicateLogFilePathError"

\* C5 as stated (on a file system where every directory can be created): for
\* every pair of file appenders with an identical resolved full_path,
\* validation fails with DuplicateLogFilePathError naming that path; and
\* changing the directory or the file name of either one makes the path check
\* of the pair succeed.
C5_AsStated ==
    (Validated /\ DirsMakeable(Len(FA))) =>
      \A i, j \in DOMAIN FA :
         (i < j /\ FA[i].file_path = FA[j].file_path) =>
            /\ IsDuplicatePathError(RetErr) /\ RetErr.path = FA[j].file_path
            /\ \A c \in Changes(j) : PairPathCheck(FA[i], c) = Ok
            /\ \A c \in Changes(i) : PairPathCheck(c, FA[j]) = Ok

\* C5 (amended): every pair of file appenders whose resolved full_path is the
\* same path fails validation; the error is DuplicateLogFilePathError naming
\* the path of the first appender that repeats an earlier one, whenever no
\* check that validate runs before it fails (no duplicated descriptor, every
\* directory up to that appender can be created, no unknown logger name in an
\* earlier file appender). Changing the directory or the file name of one of
\* the pair makes the path check succeed exactly when the resolved path
\* changes component-wise: a trailing separator, a "./" or a new directory
\* under an absolute file name leave the collision in place.
C5_DuplicatePath ==
    Validated =>
      \A i, j \in DOMAIN FA :
         (i < j /\ SamePath(FA[i].file_path, FA[j].file_path)) =>
            /\ RetErr # Ok
            /\ ( /\ PathsDistinct(j - 1) /\ NoDuplicateLogger
                 /\ DirsMakeable(j) /\ NamesKnown(j - 1) )
               => IsDuplicatePathError(RetErr) /\ RetErr.path = FA[j].file_path
            /\ \A c \in Changes(j) :
                  (PairPathCheck(FA[i], c) = Ok) <=> ~SamePath(FA[i].file_path, c.file_path)
            /\ \A c \in Changes(j) :
                  IsDuplicatePathError(PairPathCheck(FA[i], c)) \/ PairPathCheck(FA[i], c) = Ok
            /\ \A c \in Changes(i) :
                  (PairPathCheck(c, FA[j]) = Ok) <=> ~SamePath(c.file_path, FA[j].file_path)

\* two appenders spell one file differently, validation names the path, one
\* change of directory keeps the collision and another one removes it
C5_Witness ==
    /\ Validated /\ Len(FA) = 2
    /\ FA[1].file_path # FA[2].file_path
    /\ IsDuplicatePathError(RetErr) /\ RetErr.path = FA[2].file_path
    /\ \E c \in Changes(2) : c.file_dir # FA[2].file_dir /\ PairPathCheck(FA[1], c) # Ok
    /\ \E c \in Changes(2) : c.file_dir # FA[2].file_dir /\ PairPathCheck(FA[1], c) = Ok

-----------------------------------------------------------------------------
(* SpecRoute: the route of one appender compiled from a validated registry  *)

RouteLoggers ==
    [name : {"db", "api"}, target : {<<>>, <<"storage">>, <<"storage", "::db">>},
     level : {"Warn", "Debug"}]

RouteNameLists ==
    {<<"db", "default">>, <<"db">>, <<"default">>, <<"api", "db">>,
     <<"default", "db", "api", "db">>}

RouteInputs ==
    {r \in {RawConfig(al, <<>>, Some([enable |-> TRUE, write_level |-> "Info",
                                       logger_names |-> names])) :
               al \in AllLoggerSerde(RouteLoggers, MaxLoggers, {"default", "db"}, {"Info"}),
               names \in RouteNameLists} :
        LoggingConfigNew(r, {}, {}).err = Ok}

InitRoute ==
    /\ Idle
    /\ arg \in [raw : RouteInputs]
    /\ ret = Nil

ApplyCompileTargets ==
    /\ ret = Nil
    /\ LET lc == LoggingConfigFrom(arg.raw)
       IN  /\ \E order \in IterationOrders(lc.console_appender[1].logger_names) :
                ret' = Some(compile_targets(logger_map_of(lc.all_logger), order))
           /\ last' = [op |-> "compile_targets", deserialized |-> Some(lc)]
    /\ UNCHANGED <<config, logging_config, logger, dispatcher, sinks, dirs, emitted,
                   calls, disk, flags, arg>>

NextRoute == ApplyCompileTargets

SpecRoute == InitRoute /\ [][NextRoute]_vars

Compiled == ret # Nil /\ last.op = "compile_targets"
Route == ret[1]

\* what an event can carry
EventTargets == {<<"storage">>, <<"storage", "::db">>, <<"api">>, <<"api", "::v1">>}
EventSeverities == Level \ {"Off"}

\* the descriptors the appender's names resolve to
Subscribed ==
    LET all == ArgConfig.all_logger
    IN  {logger_map_of(all)[n] : n \in Range(ArgConfig.console_appender[1].logger_names)}

\* the compiled route holds the targets and the default of the subscribed
\* descriptors and nothing else
RouteOfSubscribed ==
    /\ {d.target : d \in Route.targets} = {l.target : l \in Subscribed} \ {<<>>}
    /\ \A d \in Route.targets : \E l \in Subscribed : l.target = d.target /\ l.level = d.level
    /\ Route.default = None <=> ~\E l \in Subscribed : l.target = <<>>
    /\ Route.default # None => \E l \in Subscribed : l.target = <<>> /\ l.level = Route.default

AtLeast(severity, minimum) == Rank(severity) >= Rank(minimum)

\* the example of the claim: loggers {db, storage, Warn} and {default, "", Info}
IsExample == Subscribed = {MkLogger("db", "Warn", <<"storage">>),
                           MkLogger("default", "Info", <<>>)}

\* C7 as stated: an event with origin tag t and severity s is admitted iff t
\* equals a configured target whose minimum severity m satisfies s >= m, or t
\* equals no configured target and s >= the default minimum severity; in the
\* example a storage event at Info is rejected and any other tag at Info is
\* admitted.
C7_AsStated ==
    Compiled =>
      /\ \A t \in EventTargets, s \in EventSeverities :
            targets_enabled(Route, t, s) <=>
               \/ \E d \in Route.targets : d.target = t /\ AtLeast(s, d.level)
               \/ /\ ~\E d \in Route.targets : d.target = t
                  /\ Route.default # None /\ AtLeast(s, Route.default)
      /\ IsExample =>
            /\ ~targets_enabled(Route, <<"storage">>, "Info")
            /\ \A t \in EventTargets \ {<<"storage">>} : targets_enabled(Route, t, "Info")

\* C7 (amended): the route holds one configured target per non-empty target of
\* the subscribed descriptors and the level of a subscribed empty-target
\* descriptor as default; an event with tag t and severity s is admitted iff,
\* when some configured target is a prefix of t, s >= the minimum severity of
\* the longest such target, and otherwise iff a default is configured and
\* s >= it; in the example every event whose tag starts with storage is
\* rejected at Info and admitted at Warn, and every other tag is admitted at
\* Info.
C7_Admission ==
    Compiled =>
      /\ RouteOfSubscribed
      /\ \A t \in EventTargets, s \in EventSeverities :
            LET prefixes == {d \in Route.targets : StartsWith(t, d.target)}
            IN  targets_enabled(Route, t, s) <=>
                  \/ \E d \in prefixes :
                        /\ \A e \in prefixes : Len(e.target) <= Len(d.target)
                        /\ AtLeast(s, d.level)
                  \/ prefixes = {} /\ Route.default # None /\ AtLeast(s, Route.default)
      /\ IsExample =>
            \A t \in EventTargets :
               IF StartsWith(t, <<"storage">>)
               THEN ~targets_enabled(Route, t, "Info") /\ targets_enabled(Route, t, "Warn")
               ELSE targets_enabled(Route, t, "Info") /\ ~targets_enabled(Route, t, "Debug")

\* the example of the claim has been compiled
C7_Witness ==
    /\ Compiled /\ IsExample
    /\ Route.default = "Info"
    /\ Route.targets = {[target |-> <<"storage">>, level |-> "Warn"]}

-----------------------------------------------------------------------------
(* The lifecycle claims, checked under Spec                                 *)

BootstrapErrors ==
    {"ConfigLoadError", "ConfigShowError", "MissingConfigValueError",
     "LoggingConfigLoadError", "DuplicateLoggerError", "DuplicateLogFilePathError",
     "InvalidConfigValueError", "LogDirectoryCreationError", "LogFileCreationError",
     "TracingSubscriberInitError"}

Installed == dispatcher # Nil

\* the sinks the layers of the installed dispatcher write to
Backing == {dispatcher[1][k].sink : k \in DOMAIN dispatcher[1]}

\* C1: whenever the global dispatcher is installed, the Guard Bundle holding
\* the release tokens of exactly the sinks that back it is stored and none of
\* these tokens has been released
C1_GuardBundleKept ==
    Installed =>
      /\ logger # Nil
      /\ guards_of(logger) = Backing
      /\ \A i \in Backing : sinks[i].open

\* a Bootstrap call has just returned
Returned == calls' = calls + 1

\* the call attempted to set logging up (it entered the configuration step)
Attempted == Returned /\ "config" \in Range(last'.phase)

\* C2 as stated: once a dispatcher is installed, every later initialize_logging
\* attempt returns TracingSubscriberInitError and the installed dispatcher is
\* not overwritten
C2_AsStated ==
    [][Installed /\ Attempted =>
          /\ last'.result.kind = "TracingSubscriberInitError"
          /\ dispatcher' = dispatcher]_vars

\* C2: an installed dispatcher is never overwritten or removed, every later
\* attempt to set logging up fails, and it fails with
\* TracingSubscriberInitError exactly when it gets as far as the install step
C2_ClaimedOnce ==
    [][Installed =>
          /\ dispatcher' = dispatcher
          /\ Attempted =>
                /\ last'.result # Ok
                /\ last'.result.kind = "TracingSubscriberInitError"
                      <=> "install" \in Range(last'.phase)]_vars

\* a second attempt reached the install step and was turned away
C2_Witness ==
    /\ Installed /\ calls = 2
    /\ "install" \in Range(last.phase)
    /\ last.result.kind = "TracingSubscriberInitError"

\* the call compiled routes: it entered initialize_logging_loggers
CompiledRoutes == Returned /\ "loggers" \in Range(last'.phase)

\* the appenders of the configuration the call compiled, in processing order
Appenders(lc) ==
    {<<"file", i>> : i \in DOMAIN lc.file_appenders}
       \cup (IF lc.console_appender = Nil THEN {} ELSE {<<"console", 1>>})

AppenderConfig(lc, a) ==
    IF a[1] = "file" THEN lc.file_appenders[a[2]] ELSE lc.console_appender[1]

\* the steps the call took for the appender
StepsFor(trace, a) ==
    {trace[k][3] : k \in {j \in DOMAIN trace : trace[j][1] = a[1] /\ trace[j][2] = a[2]}}

\* C6: compiling a route for an enabled appender whose write_level is Off fails
\* with InvalidConfigValueError before anything is acquired for it; a disabled
\* appender is not compiled, takes no acquisition step and causes no error:
\* every sink acquired belongs to an enabled appender with a threshold other
\* than Off, and an InvalidConfigValueError of this phase comes from an enabled
\* appender with Off
C6_OffThreshold ==
    [][CompiledRoutes =>
          LET lc    == logging_config'[1]
              trace == last'.trace
              off   == {a \in Appenders(lc) : AppenderConfig(lc, a).enable
                                              /\ AppenderConfig(lc, a).write_level = "Off"}
          IN  /\ \A a \in Appenders(lc) :
                    ~AppenderConfig(lc, a).enable => StepsFor(trace, a) = {}
              /\ \A a \in off :
                    /\ StepsFor(trace, a) \subseteq {"level_rejected"}
                    /\ last'.result # Ok
                    /\ StepsFor(trace, a) # {} =>
                          last'.result.kind = "InvalidConfigValueError"
              /\ Len(sinks') - Len(sinks) =
                    Cardinality({a \in Appenders(lc) \ off :
                                    AppenderConfig(lc, a).enable
                                    /\ "worker" \in StepsFor(trace, a)})
              /\ last'.result.kind = "InvalidConfigValueError" /\ Last(last'.phase) = "loggers"
                    => \E a \in off : Last(trace) = <<a[1], a[2], "level_rejected">>]_vars

\* a call met a disabled appender with Off, passed it by, and failed on an
\* enabled one with Off
C6_Witness ==
    /\ calls > 0 /\ logging_config # Nil /\ Last(last.phase) = "loggers"
    /\ last.result.kind = "InvalidConfigValueError"
    /\ LET fa == logging_config[1].file_appenders
       IN  /\ Len(fa) = 2
           /\ ~fa[1].enable /\ fa[1].write_level = "Off"
           /\ fa[2].enable /\ fa[2].write_level = "Off"
           /\ last.trace = <<<<"file", 2, "level_rejected">>>>

\* the compiled route admits the event: its tag is a target of the route whose
\* minimum the severity reaches, or none and the severity reaches the default
RouteAdmits(targets, event) ==
    \/ \E d \in targets.targets : d.target = event.target /\ AtLeast(event.level, d.level)
    \/ /\ ~\E d \in targets.targets : d.target = event.target
       /\ targets.default # None /\ AtLeast(event.level, targets.default)

\* the events emitted since the install that the layer's sink is to hold
RECURSIVE Due(_, _)
Due(layer, events) ==
    IF events = <<>> THEN <<>>
    ELSE LET e == Head(events)
         IN  (IF e.installed /\ RouteAdmits(layer.targets, e.event)
                    /\ AtLeast(e.event.level, layer.level)
              THEN <<e.event>> ELSE <<>>) \o Due(layer, Tail(events))

\* the configuration of the example: a file sink subscribed to api@Info, a
\* console sink subscribed to api@Warn and db@Error
IsFanOutExample ==
    /\ Installed /\ Len(dispatcher[1]) = 2
    /\ sinks[dispatcher[1][1].sink].kind = "file"
    /\ sinks[dispatcher[1][2].sink].kind = "console"

\* C8: after a successful initialization every sink holds exactly the emitted
\* events that its compiled route admits and whose severity reaches its
\* write_level, whatever the other sinks hold; so with a file sink on api@Info
\* and a console sink on api@Warn and db@Error an event api/Warn is in both
\* and an event db/Warn in neither
C8_FanOut ==
    Installed =>
      \A k \in DOMAIN dispatcher[1] :
         sinks[dispatcher[1][k].sink].lines = Due(dispatcher[1][k], emitted)

\* the call failed in the configuration step (load, validation) or while
\* compiling routes and acquiring sinks
FailedBeforeInstall ==
    /\ Returned /\ last'.result # Ok
    /\ last'.phase # <<>> /\ Last(last'.phase) \in {"config", "loggers"}

\* C9: a call that fails while loading or validating the logging configuration,
\* compiling a route or acquiring a sink returns a BootstrapError and leaves the
\* dispatcher slot, the stored Guard Bundle and its sinks as they were; when it
\* fails in the configuration step the stored logging configuration stays too
C9_FailureStoresNothing ==
    [][FailedBeforeInstall =>
          /\ last'.result.kind \in BootstrapErrors
          /\ dispatcher' = dispatcher
          /\ logger' = logger
          /\ \A i \in guards_of(logger) : sinks'[i] = sinks[i]
          /\ Last(last'.phase) = "config" => logging_config' = logging_config]_vars

\* a call failed in the configuration step after an earlier one had stored a
\* configuration and a Guard Bundle and installed the dispatcher
C9_Witness ==
    /\ Installed /\ logger # Nil /\ logging_config # Nil
    /\ last.phase # <<>> /\ Last(last.phase) = "config"
    /\ last.result.kind = "LoggingConfigLoadError"

\* a call failed while acquiring a sink after an earlier one had installed the
\* dispatcher
C9_WitnessAcquisition ==
    /\ Installed /\ logger # Nil /\ Backing # {}
    /\ last.phase # <<>> /\ Last(last.phase) = "loggers"
    /\ last.result.kind = "LogFileCreationError"

-----------------------------------------------------------------------------
(* Deserialization of the "logging" section (serde derive on the structs of *)
(* log.rs, Level::from_str). A level name is a sequence of characters; a    *)
(* table gives every field as Nil (absent) or Some(value).                  *)

\* u8::to_ascii_lowercase on the letters the level names are made of
ToLower(c) ==
    CASE c = "A" -> "a" [] c = "B" -> "b" [] c = "C" -> "c" [] c = "D" -> "d"
      [] c = "E" -> "e" [] c = "F" -> "f" [] c = "G" -> "g" [] c = "I" -> "i"
      [] c = "N" -> "n" [] c = "O" -> "o" [] c = "R" -> "r" [] c = "T" -> "t"
      [] c = "U" -> "u" [] c = "W" -> "w" [] OTHER -> c

\* str::eq_ignore_ascii_case
eq_ignore_ascii_case(a, b) ==
    Len(a) = Len(b) /\ \A i \in DOMAIN a : ToLower(a[i]) = ToLower(b[i])

from_str_Mutant(s) ==
    IF s = <<"t", "r", "a", "c", "e">> THEN Some("Trace")
    ELSE IF s = <<"d", "e", "b", "u", "g">> THEN Some("Debug")
    ELSE IF s = <<"i", "n", "f", "o">> THEN Some("Info")
    ELSE IF s = <<"w", "a", "r", "n">> THEN Some("Warn")
    ELSE IF s = <<"e", "r", "r", "o", "r">> THEN Some("Error")
    ELSE IF s = <<"o", "f", "f">> THEN Some("Off")
    ELSE Nil

\* impl FromStr for Level: Nil is Err(ParseLevelError)
from_str(s) ==
    IF eq_ignore_ascii_case(s, <<"t", "r", "a", "c", "e">>) THEN Some("Trace")
    ELSE IF eq_ignore_ascii_case(s, <<"d", "e", "b", "u", "g">>) THEN Some("Debug")
    ELSE IF eq_ignore_ascii_case(s, <<"i", "n", "f", "o">>) THEN Some("Info")
    ELSE IF eq_ignore_ascii_case(s, <<"w", "a", "r", "n">>) THEN Some("Warn")
    ELSE IF eq_ignore_ascii_case(s, <<"e", "r", "r", "o", "r">>) THEN Some("Error")
    ELSE IF eq_ignore_ascii_case(s, <<"o", "f", "f">>) THEN Some("Off")
    ELSE Nil

\* a deserializer's answer
Done(value) == [ok |-> TRUE, value |-> value]
Fail(error) == [ok |-> FALSE, error |-> error]

\* impl Deserialize for Level: a string, parsed
deserialize_level(s) ==
    IF from_str(s) = Nil THEN Fail("unknown variant") ELSE Done(from_str(s)[1])

\* a field under #[serde(default)]: the value of the struct's Default when the
\* key is absent, otherwise what the field's deserializer answers on the value
\* (answers holds that answer)
with_default_field(field, default, answers) ==
    IF field = Nil THEN Done(default) ELSE CHOOSE a \in answers : TRUE

\* a field of a struct without #[serde(default)]: an absent key is an error,
\* unless the field is an Option, which is then None
required_field(field, name, answers) ==
    IF field = Nil THEN Fail(<<"missing field", name>>) ELSE CHOOSE a \in answers : TRUE

\* serde.rs non_empty on a logger name
non_empty_name(s) ==
    IF s \in {"", " "} THEN Fail("value must not be empty") ELSE Done(s)

\* serde.rs non_empty on a target, a sequence of chunks
non_empty_target(s) ==
    IF \A i \in DOMAIN s : s[i] = " " THEN Fail("value must not be empty") ELSE Done(s)

\* the first failure among the answers, if any
FirstFailure(answers) ==
    IF \A i \in DOMAIN answers : answers[i].ok THEN Nil
    ELSE Some(answers[CHOOSE i \in DOMAIN answers :
                         ~answers[i].ok /\ \A k \in 1..(i - 1) : answers[k].ok])

\* #[serde(default, deny_unknown_fields)] struct Logger, Default derived:
\* target "", level Info, name ""
deserialize_logger(t) ==
    LET target == with_default_field(t.target, <<>>,
              {non_empty_target(x) : x \in Range(t.target)})
        level  == with_default_field(t.level, "Info",
              {deserialize_level(x) : x \in Range(t.level)})
        name   == with_default_field(t.name, "",
              {non_empty_name(x) : x \in Range(t.name)})
        failed == FirstFailure(<<target, level, name>>)
    IN  IF failed # Nil THEN failed[1]
        ELSE Done(MkLogger(name.value, level.value, target.value))

deserialize_loggers(ts) ==
    LET each   == [i \in DOMAIN ts |-> deserialize_logger(ts[i])]
        failed == FirstFailure(each)
    IN  IF failed # Nil THEN failed[1] ELSE Done([i \in DOMAIN ts |-> each[i].value])

\* #[serde(default, deny_unknown_fields)] struct AllLoggerSerde, Default derived:
\* no loggers, default_level Info, default_name ""
deserialize_all_logger(t) ==
    LET loggers       == with_default_field(t.loggers, <<>>,
              {deserialize_loggers(x) : x \in Range(t.loggers)})
        default_level == with_default_field(t.default_level, "Info",
              {deserialize_level(x) : x \in Range(t.default_level)})
        default_name  == with_default_field(t.default_name, "",
              {non_empty_name(x) : x \in Range(t.default_name)})
        failed        == FirstFailure(<<loggers, default_level, default_name>>)
    IN  IF failed # Nil THEN failed[1]
        ELSE Done([loggers |-> loggers.value, default_name |-> default_name.value,
                   default_level |-> default_level.value])

\* struct FileAppenderConfigSerde, which FileAppenderConfig is deserialized from
\* (#[serde(from = ...)]): it carries no serde attribute, so every field but the
\* two Options is required
deserialize_file_appender(t) ==
    LET enable         == required_field(t.enable, "enable",
              {Done(x) : x \in Range(t.enable)})
        write_level    == IF t.write_level = Nil THEN Done(None)
                          ELSE deserialize_level(t.write_level[1])
        file_max_size  == required_field(t.file_max_size, "file_max_size",
              {Done(x) : x \in Range(t.file_max_size)})
        file_max_count == required_field(t.file_max_count, "file_max_count",
              {Done(x) : x \in Range(t.file_max_count)})
        file_name      == required_field(t.file_name, "file_name",
              {Done(x) : x \in Range(t.file_name)})
        logger_names   == required_field(t.logger_names, "logger_names",
              {Done(x) : x \in Range(t.logger_names)})
        failed         == FirstFailure(<<enable, write_level, file_max_size,
                                         file_max_count, file_name, logger_names>>)
    IN  IF failed # Nil THEN failed[1]
        ELSE Done([enable |-> enable.value, write_level |-> write_level.value,
                   file_dir |-> t.file_dir, file_max_size |-> file_max_size.value,
                   file_max_count |-> file_max_count.value,
                   file_name |-> file_name.value, logger_names |-> logger_names.value])

deserialize_file_appenders(ts) ==
    LET each   == [i \in DOMAIN ts |-> deserialize_file_appender(ts[i])]
        failed == FirstFailure(each)
    IN  IF failed # Nil THEN failed[1] ELSE Done([i \in DOMAIN ts |-> each[i].value])

\* #[serde(default, deny_unknown_fields)] struct ConsoleAppenderConfig, Default
\* derived: enable false, write_level Info, no logger names
deserialize_console_appender(t) ==
    LET enable       == with_default_field(t.enable, FALSE,
              {Done(x) : x \in Range(t.enable)})
        write_level  == with_default_field(t.write_level, "Info",
              {deserialize_level(x) : x \in Range(t.write_level)})
        logger_names == with_default_field(t.logger_names, <<>>,
              {Done(x) : x \in Range(t.logger_names)})
        failed       == FirstFailure(<<enable, write_level, logger_names>>)
    IN  IF failed # Nil THEN failed[1]
        ELSE Done([enable |-> enable.value, write_level |-> write_level.value,
                   logger_names |-> logger_names.value])

\* #[serde(deny_unknown_fields)] struct LoggingConfig: all_logger and
\* file_appenders are required, console_appender is an Option
deserialize_logging_config(t) ==
    LET all_logger       == required_field(t.all_logger, "all_logger",
              {deserialize_all_logger(x) : x \in Range(t.all_logger)})
        file_appenders   == required_field(t.file_appenders, "file_appenders",
              {deserialize_file_appenders(x) : x \in Range(t.file_appenders)})
        console_appender == IF t.console_appender = Nil THEN Done(Nil)
                            ELSE deserialize_console_appender(t.console_appender[1])
        failed           == FirstFailure(<<all_logger, file_appenders, console_appender>>)
    IN  IF failed # Nil THEN failed[1]
        ELSE Done(RawConfig(all_logger.value, file_appenders.value,
                            IF t.console_appender = Nil THEN Nil
                            ELSE Some(console_appender.value)))

\* config.get::<LoggingConfig>(): the section as LoggingConfig::new sees it
get_logging_config(t) ==
    IF deserialize_logging_config(t).ok THEN deserialize_logging_config(t).value
    ELSE Unparsable

-----------------------------------------------------------------------------
(* SpecSerde: Level::from_str, Level::as_tracing_level and LoggingConfig::new *)
(* applied to one input each                                                *)

\* the six names of the levels
LevelName(v) ==
    CASE v = "Trace" -> <<"t", "r", "a", "c", "e">>
      [] v = "Debug" -> <<"d", "e", "b", "u", "g">>
      [] v = "Info"  -> <<"i", "n", "f", "o">>
      [] v = "Warn"  -> <<"w", "a", "r", "n">>
      [] v = "Error" -> <<"e", "r", "r", "o", "r">>
      [] v = "Off"   -> <<"o", "f", "f">>

\* the capital of a letter of the level names
Capital(c) ==
    CASE c = "a" -> "A" [] c = "b" -> "B" [] c = "c" -> "C" [] c = "d" -> "D"
      [] c = "e" -> "E" [] c = "f" -> "F" [] c = "g" -> "G" [] c = "i" -> "I"
      [] c = "n" -> "N" [] c = "o" -> "O" [] c = "r" -> "R" [] c = "t" -> "T"
      [] c = "u" -> "U" [] c = "w" -> "W"

\* every spelling of the name that differs from it in the case of letters only
CaseVariants(n) ==
    {x \in [DOMAIN n -> {n[i] : i \in DOMAIN n} \cup {Capital(n[i]) : i \in DOMAIN n}] :
        \A i \in DOMAIN n : x[i] \in {n[i], Capital(n[i])}}

\* strings that are no level name
NoLevelNames ==
    {<<>>, <<"w", "a", "r", "n", "i", "n", "g">>, <<"i", "n", "f">>,
     <<" ", "i", "n", "f", "o">>, <<"o", "f", "f", " ">>, <<"n", "o", "n", "e">>,
     <<"t", "r", "a", "c", "e", "e">>, <<"0", "f", "f">>, <<"E", "R", "R">>}

LevelStrings == UNION {CaseVariants(LevelName(v)) : v \in Level} \cup NoLevelNames

LoggerTables ==
    [target : {Nil, Some(<<>>), Some(<<"s">>)},
     level  : {Nil, Some(<<"d", "e", "b", "u", "g">>)},
     name   : {Nil, Some("a")}]

AllLoggerTables ==
    [loggers       : {Nil} \cup {Some(l) : l \in BSeq(LoggerTables, MaxLoggers - 1)},
     default_level : {Nil, Some(<<"W", "A", "R", "N">>)},
     default_name  : {Nil, Some("d"), Some("")}]

FileAppenderTables ==
    [enable : {Nil, Some(TRUE)}, write_level : {Nil, Some(<<"W", "a", "r", "n">>)},
     file_dir : {Nil}, file_max_size : {Nil, Some(0), Some(10)},
     file_max_count : {Nil, Some(0)}, file_name : {Some(<<"app.log">>)},
     logger_names : {Nil, Some(<<>>)}]

ConsoleAppenderTables ==
    [enable : {Nil, Some(TRUE), Some(FALSE)},
     write_level : {Nil, Some(<<"w", "a", "r", "n">>), Some(<<"w", "a", "r", "n", "i", "n", "g">>)},
     logger_names : {Nil, Some(<<"d">>)}]

Section(all_logger, file_appenders, console_appender) ==
    [all_logger |-> all_logger, file_appenders |-> file_appenders,
     console_appender |-> console_appender]

\* a registry table with nothing left out
FullAllLogger ==
    [loggers |-> Some(<<>>), default_level |-> Some(<<"i", "n", "f", "o">>),
     default_name |-> Some("d")]

\* the table Config::get deserializes when there is no "logging" key at all
EmptySection == Section(Nil, Nil, Nil)

Sections ==
    {Section(Some(al), Some(<<>>), Nil) : al \in AllLoggerTables}
       \cup {Section(Some(FullAllLogger), Some(<<f>>), Nil) : f \in FileAppenderTables}
       \cup {Section(Some(FullAllLogger), Some(<<>>), Some(c)) : c \in ConsoleAppenderTables}
       \cup {EmptySection, Section(Nil, Some(<<>>), Nil), Section(Some(FullAllLogger), Nil, Nil)}

SerdeInputs ==
    [kind : {"string"}, s : LevelStrings]
       \cup [kind : {"level"}, level : Level]
       \cup [kind : {"section"}, table : Sections]

InitSerde ==
    /\ Idle
    /\ arg \in SerdeInputs
    /\ ret = Nil

ApplyFromStr ==
    /\ ret = Nil /\ arg.kind = "string"
    /\ ret' = Some(from_str(arg.s))
    /\ last' = [op |-> "from_str"]
    /\ UNCHANGED <<config, logging_config, logger, dispatcher, sinks, dirs, emitted,
                   calls, disk, flags, arg>>

ApplyAsTracingLevel ==
    /\ ret = Nil /\ arg.kind = "level"
    /\ ret' = Some(as_tracing_level(arg.level))
    /\ last' = [op |-> "as_tracing_level"]
    /\ UNCHANGED <<config, logging_config, logger, dispatcher, sinks, dirs, emitted,
                   calls, disk, flags, arg>>

\* LoggingConfig::new on a section: deserialize, then validate
ApplyLoggingConfigNewOnSection ==
    /\ ret = Nil /\ arg.kind = "section"
    /\ \E answer \in {deserialize_logging_config(arg.table)} :
          /\ ret' = Some(LoggingConfigNew(get_logging_config(arg.table), {}, {}))
          /\ last' = [op |-> "LoggingConfig::new", answer |-> answer,
                      deserialized |-> IF answer.ok THEN Some(LoggingConfigFrom(answer.value))
                                       ELSE Nil]
    /\ UNCHANGED <<config, logging_config, logger, dispatcher, sinks, dirs, emitted,
                   calls, disk, flags, arg>>

NextSerde == ApplyFromStr \/ ApplyAsTracingLevel \/ ApplyLoggingConfigNewOnSection

SpecSerde == InitSerde /\ [][NextSerde]_vars

Parsed == ret # Nil /\ last.op = "from_str"
Converted == ret # Nil /\ last.op = "as_tracing_level"
Loaded == ret # Nil /\ last.op = "LoggingConfig::new"

\* C12: from_str answers a variant exactly for the strings that spell its name
\* in some mix of upper and lower case and fails for every other string;
\* as_tracing_level gives None for Off and the level itself for every other
\* variant
C12_LevelParsing ==
    /\ Parsed =>
          /\ \A v \in Level : ret[1] = Some(v) <=> arg.s \in CaseVariants(LevelName(v))
          /\ ret[1] = Nil <=> \A v \in Level : arg.s \notin CaseVariants(LevelName(v))
    /\ Converted =>
          /\ ret[1] = None <=> arg.level = "Off"
          /\ arg.level # "Off" => ret[1] = arg.level

\* a name in mixed case has been parsed
C12_Witness ==
    Parsed /\ arg.s = <<"W", "a", "R", "n">> /\ ret[1] = Some("Warn")

\* Off has been converted
C12_WitnessOff == Converted /\ arg.level = "Off" /\ ret[1] = None

\* every level, name and target the section gives is one its field accepts
PresentFieldsValid(t) ==
    /\ t.all_logger # Nil /\ t.file_appenders # Nil
    /\ LET al == t.all_logger[1]
       IN  /\ al.default_name \notin {Nil, Some("")}
           /\ al.loggers # Nil
           /\ \A i \in DOMAIN al.loggers[1] :
                 al.loggers[1][i].target \notin {Nil, Some(<<>>)}
                    /\ al.loggers[1][i].name # Nil
    /\ \A i \in DOMAIN t.file_appenders[1] :
          LET f == t.file_appenders[1][i]
          IN  f.enable # Nil /\ f.file_name # Nil /\ f.logger_names # Nil
    /\ t.console_appender # Nil =>
          /\ t.console_appender[1].write_level # Some(<<"w", "a", "r", "n", "i", "n", "g">>)
          /\ t.console_appender[1].logger_names # Nil

\* C11: a section that leaves out only a write_level, the console appender's
\* enable or a file appender's max size or max count is loaded, and the
\* absent field has its default: write_level Info, the console appender
\* enabled, max size and max count zero
C11_Defaults ==
    Loaded /\ PresentFieldsValid(arg.table) =>
      /\ last.answer.ok
      /\ LET lc == last.deserialized[1]
             t  == arg.table
         IN  /\ \A i \in DOMAIN t.file_appenders[1] :
                   LET f == t.file_appenders[1][i]
                   IN  /\ f.write_level = Nil => lc.file_appenders[i].write_level = "Info"
                       /\ f.file_max_size = Nil => lc.file_appenders[i].file_max_size = 0
                       /\ f.file_max_count = Nil => lc.file_appenders[i].file_max_count = 0
             /\ t.console_appender # Nil =>
                   /\ t.console_appender[1].write_level = Nil =>
                         lc.console_appender[1].write_level = "Info"
                   /\ t.console_appender[1].enable = Nil => lc.console_appender[1].enable

-----------------------------------------------------------------------------
(* Order of the validation rules, checked under SpecValidate                *)

AnyUnknownName ==
    (\E i \in DOMAIN FA : HasUnknown(FA[i].logger_names)) \/ HasUnknown(ConsoleNames)

\* C13: with a registry free of duplicates and directories that can be
\* created, the name check over all file and console appenders comes first,
\* the path collision check second and directory creation last: an unknown
\* name anywhere gives the unknown-name error even when two paths collide, a
\* collision alone gives the duplicate-path error, and in both cases no
\* directory has been created
C13_RuleOrder ==
    (Validated /\ NoDuplicateLogger /\ DirsMakeable(Len(FA))) =>
      /\ AnyUnknownName => IsUnknownNameError(RetErr)
      /\ (~AnyUnknownName /\ ~PathsDistinct(Len(FA))) => IsDuplicatePathError(RetErr)
      /\ (AnyUnknownName \/ ~PathsDistinct(Len(FA))) => ret[1].dirs = {}

-----------------------------------------------------------------------------
(* Order of the steps of one pass, checked under Spec                       *)

AcquisitionSteps == {"open", "open_failed", "worker"}
CompilationSteps == {"level_rejected", "route"}

\* C14: in the pass of the last call no file is opened and no flush worker
\* started before the threshold of every enabled appender has been checked
\* and its route compiled; in particular an invalid threshold is reported
\* before any sink of the pass is opened
C14_CompileBeforeAcquire ==
    \A j, k \in DOMAIN last.trace :
       (j < k /\ last.trace[j][3] \in AcquisitionSteps)
          => last.trace[k][3] \notin CompilationSteps

\* the same for the invalid threshold alone: when a pass reports it, no sink
\* has been opened in that pass
C14_ThresholdFirst ==
    \A k \in DOMAIN last.trace :
       last.trace[k][3] = "level_rejected" =>
          \A j \in 1..(k - 1) : last.trace[j][3] \notin AcquisitionSteps

-----------------------------------------------------------------------------
(* Events of the bootstrap code, checked under Spec                         *)

\* the events the call that has just returned emitted
EmittedByCall == {emitted'[k] : k \in (Len(emitted) + 1)..Len(emitted')}

\* C15: a call of initialize with logging initialization enabled emits its
\* events only while the global dispatcher is installed: none while the
\* configuration is loaded or logging is set up, and those of show_config
\* after the install
C15_InstallBeforeEmit ==
    [][(Returned /\ last'.op = "initialize" /\ flags.initialize_logging) =>
          \A e \in EmittedByCall : e.installed]_vars

-----------------------------------------------------------------------------
(* Writers per file, checked under Spec                                     *)

\* the file a path leads to from the working directory: "./logs/app.log" and
\* "logs/app.log" are the same file
PhysicalFile(path) ==
    LET c == Components(path)
    IN  [c EXCEPT !.names = IF @ # <<>> /\ Head(@) = CurDir THEN Tail(@) ELSE @]

\* the file writers whose flush worker is running
LiveFileWriters == {i \in DOMAIN sinks : sinks[i].kind = "file" /\ sinks[i].open}

\* C16: no two live file writers have the same file open
C16_OneWriterPerFile ==
    \A i, j \in LiveFileWriters :
       i # j => PhysicalFile(sinks[i].path) # PhysicalFile(sinks[j].path)

-----------------------------------------------------------------------------
(* Determinism of the compiled route, checked under SpecRoute               *)

\* C17: the compiled route is the same for every order in which the set of
\* the appender's names is visited: it depends on the set of names and on the
\* registry only, also when two subscribed descriptors have the same target
\* or both have the empty target
C17_RouteOfNameSet ==
    Compiled =>
       \A order \in IterationOrders(ArgConfig.console_appender[1].logger_names) :
          compile_targets(logger_map_of(ArgConfig.all_logger), order) = Route

-----------------------------------------------------------------------------
(* The Guard Bundle of a successful pass, checked under Spec                *)

\* the last call set logging up: it installed the dispatcher
LoggingSetUp ==
    "install" \in Range(last.phase) /\ last.result.kind # "TracingSubscriberInitError"

EnabledFileAppenders(lc) ==
    {i \in DOMAIN lc.file_appenders : lc.file_appenders[i].enable}

ConsoleEnabled(lc) == lc.console_appender # Nil /\ lc.console_appender[1].enable

\* C18: after a pass that set logging up the stored Guard Bundle holds one
\* release token per enabled file appender, for a sink on that appender's
\* path, one for the console exactly if the console appender is present and
\* enabled, and nothing else
C18_OneTokenPerEnabledAppender ==
    LoggingSetUp =>
       LET lc     == logging_config[1]
           tokens == logger[1]
           of(kind) == {k \in DOMAIN tokens : sinks[tokens[k]].kind = kind}
       IN  /\ logger # Nil
           /\ \A k, n \in DOMAIN tokens : k # n => tokens[k] # tokens[n]
           /\ Len(tokens) = Cardinality(EnabledFileAppenders(lc))
                               + (IF ConsoleEnabled(lc) THEN 1 ELSE 0)
           /\ Cardinality(of("file")) = Cardinality(EnabledFileAppenders(lc))
           /\ {sinks[tokens[k]].path : k \in of("file")}
                 = {lc.file_appenders[i].file_path : i \in EnabledFileAppenders(lc)}
           /\ Cardinality(of("console")) = IF ConsoleEnabled(lc) THEN 1 ELSE 0

\* logging was set up from a configuration with an enabled and a disabled file
\* appender and a disabled console appender: the bundle holds one token
C18_Witness ==
    /\ LoggingSetUp
    /\ \E i \in DOMAIN logging_config[1].file_appenders :
          ~logging_config[1].file_appenders[i].enable
    /\ logging_config[1].console_appender # Nil
    /\ ~ConsoleEnabled(logging_config[1])
    /\ Len(logger[1]) = 1

-----------------------------------------------------------------------------
(* The default descriptor of a loaded registry, checked under SpecSerde     *)

\* C19: the registry of a configuration that was loaded and passed validation
\* has exactly one descriptor with the empty target, and it is the last one,
\* the default descriptor; no declared logger has the empty target
C19_OneDefaultDescriptor ==
    (Loaded /\ ret[1].err = Ok) =>
       LET all == ret[1].value[1].all_logger
       IN  /\ all # <<>>
           /\ all[Len(all)].target = <<>>
           /\ \A i \in 1..(Len(all) - 1) : all[i].target # <<>>

-----------------------------------------------------------------------------
(* Resolution of the logger names, checked under Spec                       *)

\* the names the appenders of lc that are worked on subscribe to
SubscribedNames(lc) ==
    UNION ({Range(lc.file_appenders[i].logger_names) : i \in EnabledFileAppenders(lc)}
             \cup (IF ConsoleEnabled(lc)
                   THEN {Range(lc.console_appender[1].logger_names)} ELSE {}))

\* C20: every name of every enabled appender of a stored logging
\* configuration is a key of the name-to-descriptor map, and no call ends in
\* the panic of a failed lookup
C20_NamesResolve ==
    /\ last.result.kind # "panic"
    /\ logging_config # Nil =>
          SubscribedNames(logging_config[1])
             \subseteq DOMAIN logger_map_of(logging_config[1].all_logger)

\* the second call compiled the routes of a file and of the console appender,
\* and each of their names was resolved
C20_Witness ==
    /\ calls = 2
    /\ "loggers" \in Range(last.phase)
    /\ last.trace # <<>>
    /\ EnabledFileAppenders(logging_config[1]) # {}
    /\ ConsoleEnabled(logging_config[1])
    /\ SubscribedNames(logging_config[1]) = {"api_info", "api_warn", "db_error"}

-----------------------------------------------------------------------------
(* Descriptors of the same name, checked under SpecRoute                    *)

\* the positions of the registry whose descriptor has a later one of the same
\* name after it
Shadowed(all) ==
    {i \in DOMAIN all : \E k \in DOMAIN all : k > i /\ all[k].name = all[i].name}

\* per subscribed name the descriptor declared last under it
LastDeclared ==
    LET all == ArgConfig.all_logger
    IN  {all[i] : i \in {k \in DOMAIN all \ Shadowed(all) :
                           all[k].name \in Range(ArgConfig.console_appender[1].logger_names)}}

\* C21: the route of an appender is made of the descriptors declared last
\* under the names it subscribes to, one per name: every target entry and the
\* default of the route come from such a descriptor, every such descriptor's
\* target is in the route, and a descriptor with a later one of the same name
\* (a declared logger named like the default descriptor among them) adds no
\* entry of its own
C21_LastDeclaredWins ==
    Compiled =>
       LET all == ArgConfig.all_logger
       IN  /\ Route # [panic |-> TRUE]
           /\ {d.target : d \in Route.targets} = {l.target : l \in LastDeclared} \ {<<>>}
           /\ \A d \in Route.targets :
                 \E l \in LastDeclared : l.target = d.target /\ l.level = d.level
           /\ Route.default # None <=> \E l \in LastDeclared : l.target = <<>>
           /\ Route.default # None =>
                 \E l \in LastDeclared : l.target = <<>> /\ l.level = Route.default
           /\ \A i \in Shadowed(all) :
                 (~\E l \in LastDeclared : l.target = all[i].target /\ l.level = all[i].level)
                    => /\ [target |-> all[i].target, level |-> all[i].level]
                             \notin Route.targets
                       /\ all[i].target = <<>> => Route.default # all[i].level

\* an appender subscribed to the name of the default descriptor, which a
\* declared logger with a target of its own shares: the route has the default
\* and no target entry
C21_Witness ==
    /\ Compiled
    /\ LET all == ArgConfig.all_logger
       IN  /\ Len(all) = 2
           /\ all[1].name = all[2].name
           /\ all[1].target # <<>>
           /\ Range(ArgConfig.console_appender[1].logger_names) = {all[2].name}
    /\ Route = [default |-> "Info", targets |-> {}]

-----------------------------------------------------------------------------
(* initialize_logging without a loaded configuration, checked under Spec    *)

\* an initialize_logging call has just returned
LoggingCalled == Returned /\ last'.op = "initialize_logging"

\* the call left the Bootstrap and the process as they were
NothingChanged ==
    UNCHANGED <<config, logging_config, logger, dispatcher, sinks, dirs, emitted>>

\* C22: initialize_logging with logging initialization enabled and no loaded
\* configuration returns MissingConfigValueError and changes nothing: no
\* logging configuration is stored, no directory is created, no sink is
\* acquired, no dispatcher is installed; with logging initialization disabled
\* it returns Ok and changes nothing
C22_NoConfigLoaded ==
    [][LoggingCalled =>
          /\ (flags.initialize_logging /\ config = Nil) =>
                /\ last'.result.kind = "MissingConfigValueError"
                /\ NothingChanged
                /\ logging_config' = Nil /\ dispatcher' = Nil
                /\ sinks' = <<>> /\ dirs' = {}
          /\ ~flags.initialize_logging =>
                /\ last'.result = Ok
                /\ NothingChanged]_vars

\* initialize_logging was called with logging initialization enabled before
\* any configuration was loaded, and was turned away
C22_Witness ==
    /\ last.op = "initialize_logging"
    /\ flags.initialize_logging /\ config = Nil
    /\ last.result.kind = "MissingConfigValueError"
    /\ last.phase = <<"config">>

\* initialize_logging was called with logging initialization disabled on a
\* Bootstrap whose configuration is loaded
C22_WitnessDisabled ==
    /\ last.op = "initialize_logging"
    /\ ~flags.initialize_logging /\ config # Nil
    /\ last.result = Ok /\ calls = 2

====
